---------------------------- MODULE Spec2Model ----------------------------
(***************************************************************************)
(* Scoring and ranking engine of the draft assistant (draft_assistant.py). *)
(*                                                                         *)
(* Numbers.  The program computes in binary floating point; the model      *)
(* computes the same expressions exactly, in fixed point:                  *)
(*   need_weight                  in hundredths          (Cent)            *)
(*   value_over_adp               in whole picks                           *)
(*   blended_score                in 1/12000             (BlendUnit)       *)
(*   final_rank_score             in 1/(12000*100)    (BlendUnit*Cent)                *)
(* adp, proj_pts and pick numbers are whole numbers in the model, so every *)
(* term of the formulas is a whole number of its unit.  A float result can *)
(* differ from the exact one in its last bits (an exact 0 or an exact tie  *)
(* of two different rows need not be one in floats); the sort is modelled  *)
(* by its contract on whatever keys it is given.                           *)
(*                                                                         *)
(* An Optional[...] field is a sequence: <<>> is None, <<v>> is the value. *)
(* A dict is a function whose DOMAIN is its key set.                       *)
(***************************************************************************)
EXTENDS Integers, Sequences, FiniteSets

VARIABLES
    candidates,  \* List[PlayerRow] handed to the scoring functions
    state,       \* RosterState
    settings,    \* LeagueSettings
    call,        \* the function applied last: [fn, pos, idx]
    ret,         \* the number it returned (in the unit of that function)
    ranked,      \* build_prompt's shortlist (candidates_sorted)
    ui,          \* app.py: the widget values and the environment of one script run
    run          \* app.py: how far the action button's handler has come

vars == <<candidates, state, settings, call, ret, ranked, ui, run>>

---------------------------------------------------------------------------
(* Bounds of the model *)

\* dict values (roster_limits, starters_needed, roster_counts) range over 0..MaxCount
MaxCount == 2
\* turns_until_next_pick ranges over 0..MaxTurns
MaxTurns == 2
\* exhaustively enumerated candidate lists have at most MaxCands elements
MaxCands == 2
\* long candidate lists have SHORTLIST - LongSlack .. SHORTLIST + LongSlack elements
LongSlack == 1

---------------------------------------------------------------------------
(* Program constants, in fixed point *)

Cent == 10 * 10                 \* weights, coefficients and need_weight are counted in hundredths
BlendUnit == 50 * 24 * 10       \* blended_score is counted in 1/12000

NEED_BASE == 100                \* 1.0
GAP_SLOPE == 35                 \* 0.35 per unmet starter
RUN_RISK_BOOST == 15            \* 0.15
RUN_RISK_TURNS == 2             \* turns_until_next_pick >= 2
RB_WR_BONUS == 10               \* 0.1
SUPERFLEX_QB_BONUS == 60         \* 0.6

W_PROJ == 55                    \* 0.55
PROJ_DIV == 50                  \* proj / 50.0
W_VOA == 35                     \* 0.35
VOA_DIV == 24                   \* voa / 24.0
W_TIER == 10                    \* 0.10
TIER_COEF == 25                 \* tier_adj = -0.25 * ...
DEFAULT_TIER == 5               \* (p.tier or 5)
SHORTLIST == 18                 \* sorted(...)[:18]

---------------------------------------------------------------------------
(* Python values *)

None == <<>>
Some(v) == <<v>>
IsNone(x) == x = <<>>
Val(x) == x[1]

\* x or d, for an Optional number: None and 0 are both falsy
OrDefault(x, d) == IF IsNone(x) \/ Val(x) = 0 THEN d ELSE Val(x)

\* d.get(k, default)
Get(d, k, default) == IF k \in DOMAIN d THEN d[k] ELSE default

EmptyDict == [k \in {} |-> 0]

Max(a, b) == IF a >= b THEN a ELSE b
Min(a, b) == IF a <= b THEN a ELSE b

---------------------------------------------------------------------------
(* Value/need helpers *)

\* need_weight with the lookup chain reversed: starters_needed shadows roster_limits
need_weight_needed_first(pos, st, se) ==
    LET starters == Get(st.starters_needed, pos, Get(se.roster_limits, pos, 0))
        have == Get(st.roster_counts, pos, 0)
        gap == Max(starters - have, 0)
        run_risk_boost ==
            IF st.turns_until_next_pick >= RUN_RISK_TURNS THEN RUN_RISK_BOOST ELSE 0
        base == NEED_BASE + GAP_SLOPE * gap + run_risk_boost
        base1 == IF pos \in {"RB", "WR"} THEN base + RB_WR_BONUS ELSE base
        base2 == IF pos = "QB" /\ se.qb_format = "SF"
                     THEN base1 + SUPERFLEX_QB_BONUS ELSE base1
    IN  base2

\* need_weight with the gap not clamped at 0
need_weight_unclamped(pos, st, se) ==
    LET starters == Get(se.roster_limits, pos, Get(st.starters_needed, pos, 0))
        have == Get(st.roster_counts, pos, 0)
        gap == starters - have
        run_risk_boost ==
            IF st.turns_until_next_pick >= RUN_RISK_TURNS THEN RUN_RISK_BOOST ELSE 0
        base == NEED_BASE + GAP_SLOPE * gap + run_risk_boost
        base1 == IF pos \in {"RB", "WR"} THEN base + RB_WR_BONUS ELSE base
        base2 == IF pos = "QB" /\ se.qb_format = "SF"
                     THEN base1 + SUPERFLEX_QB_BONUS ELSE base1
    IN  base2

\* need_weight with gap = abs(starters - have)
need_weight_abs_gap(pos, st, se) ==
    LET starters == Get(se.roster_limits, pos, Get(st.starters_needed, pos, 0))
        have == Get(st.roster_counts, pos, 0)
        gap == Max(starters - have, have - starters)
        run_risk_boost ==
            IF st.turns_until_next_pick >= RUN_RISK_TURNS THEN RUN_RISK_BOOST ELSE 0
        base == NEED_BASE + GAP_SLOPE * gap + run_risk_boost
        base1 == IF pos \in {"RB", "WR"} THEN base + RB_WR_BONUS ELSE base
        base2 == IF pos = "QB" /\ se.qb_format = "SF"
                     THEN base1 + SUPERFLEX_QB_BONUS ELSE base1
    IN  base2

\* need_weight with the superflex bonus given to every position
need_weight_sf_any_pos(pos, st, se) ==
    LET starters == Get(se.roster_limits, pos, Get(st.starters_needed, pos, 0))
        have == Get(st.roster_counts, pos, 0)
        gap == Max(starters - have, 0)
        run_risk_boost ==
            IF st.turns_until_next_pick >= RUN_RISK_TURNS THEN RUN_RISK_BOOST ELSE 0
        base == NEED_BASE + GAP_SLOPE * gap + run_risk_boost
        base1 == IF pos \in {"RB", "WR"} THEN base + RB_WR_BONUS ELSE base
        base2 == IF se.qb_format = "SF" THEN base1 + SUPERFLEX_QB_BONUS ELSE base1
    IN  base2

need_weight(pos, st, se) ==
    LET starters == Get(se.roster_limits, pos, Get(st.starters_needed, pos, 0))
        have == Get(st.roster_counts, pos, 0)
        gap == Max(starters - have, 0)
        run_risk_boost ==
            IF st.turns_until_next_pick >= RUN_RISK_TURNS THEN RUN_RISK_BOOST ELSE 0
        base == NEED_BASE + GAP_SLOPE * gap + run_risk_boost
        base1 == IF pos \in {"RB", "WR"} THEN base + RB_WR_BONUS ELSE base
        base2 == IF pos = "QB" /\ se.qb_format = "SF"
                     THEN base1 + SUPERFLEX_QB_BONUS ELSE base1
    IN  base2


\* value_over_adp with the ADP tested for truth (a 0.0 ADP read as absent)
value_over_adp_falsy(p, current_pick_overall) ==
    IF IsNone(p.adp) \/ Val(p.adp) = 0 THEN 0
    ELSE Val(p.adp) - current_pick_overall

value_over_adp(p, current_pick_overall) ==
    IF IsNone(p.adp) THEN 0
    ELSE Val(p.adp) - current_pick_overall

\* blended_score with the tier adjustment added without its 0.10 weight
blended_score_tier_unweighted(p, st, se) ==
    LET voa == value_over_adp(p, st.pick_overall)
        proj == OrDefault(p.proj_pts, 0)
        tier_adj == (0 - TIER_COEF) * OrDefault(p.tier, DEFAULT_TIER)
    IN  (W_PROJ * proj * BlendUnit) \div (Cent * PROJ_DIV)
          + (W_VOA * voa * BlendUnit) \div (Cent * VOA_DIV)
          + (tier_adj * BlendUnit) \div Cent

\* the three terms are whole numbers of 1/BlendUnit, so every \div is exact
blended_score(p, st, se) ==
    LET voa == value_over_adp(p, st.pick_overall)
        proj == OrDefault(p.proj_pts, 0)
        tier_adj == (0 - TIER_COEF) * OrDefault(p.tier, DEFAULT_TIER)
    IN  (W_PROJ * proj * BlendUnit) \div (Cent * PROJ_DIV)
          + (W_VOA * voa * BlendUnit) \div (Cent * VOA_DIV)
          + (W_TIER * tier_adj * BlendUnit) \div (Cent * Cent)

\* final_rank_score with the need added to the merit instead of multiplying it
final_rank_score_additive(p, st, se) ==
    blended_score(p, st, se) * Cent + need_weight(p.pos, st, se) * BlendUnit

final_rank_score(p, st, se) ==
    blended_score(p, st, se) * need_weight(p.pos, st, se)

---------------------------------------------------------------------------
(* Prompt builder: the ranking step of build_prompt *)

\* keys[i] = key(cands[i]), computed once per element as sorted(key=...) does
SortKeys(cands, st, se) ==
    [i \in 1..Len(cands) |-> final_rank_score(cands[i], st, se)]

\* insert index i into the index list out (sorted by descending key), ahead of
\* the elements whose key equals keys[i]
InsertBeforeEqual(out, i, keys) ==
    LET ahead == {j \in 1..Len(out) : keys[out[j]] > keys[i]}
        n == Cardinality(ahead)
    IN  SubSeq(out, 1, n) \o <<i>> \o SubSeq(out, n + 1, Len(out))

\* insert index i into the index list out as an ascending sort would
\* (reverse=True left out)
InsertAscending(out, i, keys) ==
    LET ahead == {j \in 1..Len(out) : keys[out[j]] <= keys[i]}
        n == Cardinality(ahead)
    IN  SubSeq(out, 1, n) \o <<i>> \o SubSeq(out, n + 1, Len(out))

\* insert index i into the index list out (sorted by descending key), behind
\* every element whose key is >= keys[i]
InsertStable(out, i, keys) ==
    LET ahead == {j \in 1..Len(out) : keys[out[j]] >= keys[i]}
        n == Cardinality(ahead)
    IN  SubSeq(out, 1, n) \o <<i>> \o SubSeq(out, n + 1, Len(out))

\* the indices 1..n in the order sorted(..., reverse=True) returns them:
\* descending key, equal keys in their original order
RECURSIVE SortedIndices(_, _)
SortedIndices(n, keys) ==
    IF n = 0 THEN <<>>
    ELSE InsertStable(SortedIndices(n - 1, keys), n, keys)

\* sorted(candidates, key=lambda p: final_rank_score(p, state, settings), reverse=True)
sorted_by_final_rank_score(cands, st, se) ==
    LET order == SortedIndices(Len(cands), SortKeys(cands, st, se))
    IN  [i \in 1..Len(cands) |-> cands[order[i]]]

\* the slice one element short
shortlist_slice_short(s) == SubSeq(s, 1, Min(Len(s), SHORTLIST - 1))

\* s[:18]
shortlist_slice(s) == SubSeq(s, 1, Min(Len(s), SHORTLIST))

---------------------------------------------------------------------------
(* Inputs *)

Positions == {"QB", "RB", "WR", "UNK"}
DictKeys == {"QB", "RB"}
QbFormats == {"1QB", "SF"}

\* every dict over a subset of DictKeys with values in 0..MaxCount
Dicts == UNION {[D -> 0..MaxCount] : D \in SUBSET DictKeys}

\* the dicts with at most one key
SingleKeyDicts == {d \in Dicts : Cardinality(DOMAIN d) <= 1}

NoCall == [fn |-> "none", pos |-> "", idx |-> 0]

\* the scoring functions applied on their own: no script run
NoUi == [pressed |-> FALSE]
NoRun == [pc |-> "none"]

InitNeed ==
    /\ candidates = <<>>
    /\ \E rc \in Dicts, sn \in Dicts, t \in 0..MaxTurns :
          state = [roster_counts |-> rc, starters_needed |-> sn,
                   pick_overall |-> 1, turns_until_next_pick |-> t]
    /\ \E f \in QbFormats, rl \in Dicts :
          settings = [qb_format |-> f, roster_limits |-> rl]
    /\ call = NoCall
    /\ ret = 0
    /\ ranked = <<>>
    /\ ui = NoUi
    /\ run = NoRun

\* the contexts in which two gaps are compared: dicts with at most one key
InitNeedGap ==
    /\ candidates = <<>>
    /\ \E rc \in SingleKeyDicts, sn \in SingleKeyDicts, t \in 0..MaxTurns :
          state = [roster_counts |-> rc, starters_needed |-> sn,
                   pick_overall |-> 1, turns_until_next_pick |-> t]
    /\ \E f \in QbFormats, rl \in SingleKeyDicts :
          settings = [qb_format |-> f, roster_limits |-> rl]
    /\ call = NoCall
    /\ ret = 0
    /\ ranked = <<>>
    /\ ui = NoUi
    /\ run = NoRun

\* field values of a PlayerRow (team, bye and ecr are never read by the scoring)
AdpValues == {0, 10, 36, 50}
ProjValues == {0, 100, 300}
TierValues == {0, 1, 4, 7}
PickValues == {10, 24}

Optional(S) == {None} \cup {Some(v) : v \in S}

PlayerRow(name, pos, adp, proj_pts, tier) ==
    [player |-> name, pos |-> pos, adp |-> adp, proj_pts |-> proj_pts, tier |-> tier]

\* the name of candidate i of a list: names are distinct within a list and
\* are not in input order
NameOf(i) == (i * 7) % 23

Named(rows) == [i \in 1..Len(rows) |-> [rows[i] EXCEPT !.player = NameOf(i)]]

\* app.py's _default_starters() and _default_limits()
DefaultStarters ==
    [k \in {"QB", "RB", "WR", "TE", "FLEX", "DST", "K"} |->
        IF k \in {"RB", "WR"} THEN 2 ELSE 1]
DefaultLimits ==
    [k \in {"QB", "RB", "WR", "TE", "DST", "K"} |->
        IF k \in {"RB", "WR"} THEN 2 ELSE 1]

\* roster counts of a roster that holds running backs only
RbCounts == {EmptyDict} \cup {[k \in {"RB"} |-> v] : v \in 1..MaxCount}

\* one candidate of every shape, in the contexts the app builds and in empty ones
InitScore ==
    /\ \E pos \in Positions, adp \in Optional(AdpValues),
          proj \in Optional(ProjValues), tier \in Optional(TierValues) :
          candidates = Named(<<PlayerRow(0, pos, adp, proj, tier)>>)
    /\ \E rc \in RbCounts, sn \in {EmptyDict, DefaultStarters},
          pk \in PickValues, t \in 0..MaxTurns :
          state = [roster_counts |-> rc, starters_needed |-> sn,
                   pick_overall |-> pk, turns_until_next_pick |-> t]
    /\ \E f \in QbFormats, rl \in {EmptyDict, DefaultLimits} :
          settings = [qb_format |-> f, roster_limits |-> rl]
    /\ call = NoCall
    /\ ret = 0
    /\ ranked = <<>>
    /\ ui = NoUi
    /\ run = NoRun

\* the player rows candidate lists are made of (name filled in per list):
\* a name-only row as _df_to_players builds it, rows with every field, rows
\* with some fields absent or 0
RankPool == <<
    PlayerRow(0, "UNK", None, None, None),
    PlayerRow(0, "RB", Some(10), Some(300), Some(1)),
    PlayerRow(0, "QB", Some(50), Some(100), Some(4)),
    PlayerRow(0, "WR", None, Some(100), Some(0)),
    PlayerRow(0, "QB", Some(36), Some(0), Some(7)),
    PlayerRow(0, "RB", Some(50), None, None),
    PlayerRow(0, "WR", Some(10), Some(300), Some(1)),
    PlayerRow(0, "QB", Some(0), Some(300), Some(4)) >>

\* every list of at most MaxCands rows of the pool
ShortLists ==
    UNION {{Named([i \in 1..n |-> RankPool[f[i]]]) : f \in [1..n -> 1..Len(RankPool)]}
             : n \in 0..MaxCands}

\* lists around the shortlist size: the pool walked cyclically from a start
\* with a stride (stride 0: the same row throughout)
LongLists ==
    {Named([i \in 1..n |-> RankPool[((start + (i - 1) * stride) % Len(RankPool)) + 1]]) :
        n \in (SHORTLIST - LongSlack)..(SHORTLIST + LongSlack),
        start \in 0..(Len(RankPool) - 1),
        stride \in {0, 1, 3}}

\* short lists in every context; long lists in the contexts app.py builds
\* (_default_starters(), _default_limits(), inferred roster counts)
InitRank ==
    /\ \E rc \in RbCounts, t \in 0..MaxTurns, f \in QbFormats :
          \/ /\ candidates \in ShortLists
             /\ \E sn \in {EmptyDict, DefaultStarters, [k \in {"RB"} |-> 2]},
                   rl \in {EmptyDict, DefaultLimits} :
                   /\ state = [roster_counts |-> rc, starters_needed |-> sn,
                               pick_overall |-> 24, turns_until_next_pick |-> t]
                   /\ settings = [qb_format |-> f, roster_limits |-> rl]
          \/ /\ candidates \in LongLists
             /\ state = [roster_counts |-> rc, starters_needed |-> DefaultStarters,
                         pick_overall |-> 24, turns_until_next_pick |-> t]
             /\ settings = [qb_format |-> f, roster_limits |-> DefaultLimits]
    /\ call = NoCall
    /\ ret = 0
    /\ ranked = <<>>
    /\ ui = NoUi
    /\ run = NoRun

---------------------------------------------------------------------------
(* Operations *)

CallNeedWeight ==
    \E pos \in Positions :
        /\ call' = [fn |-> "need_weight", pos |-> pos, idx |-> 0]
        /\ ret' = need_weight(pos, state, settings)
        /\ UNCHANGED <<candidates, state, settings, ranked, ui, run>>

NextNeed == CallNeedWeight

SpecNeed == InitNeed /\ [][NextNeed]_vars

SpecNeedGap == InitNeedGap /\ [][NextNeed]_vars

CallValueOverAdp ==
    \E i \in 1..Len(candidates) :
        /\ call' = [fn |-> "value_over_adp", pos |-> "", idx |-> i]
        /\ ret' = value_over_adp(candidates[i], state.pick_overall)
        /\ UNCHANGED <<candidates, state, settings, ranked, ui, run>>

CallBlendedScore ==
    \E i \in 1..Len(candidates) :
        /\ call' = [fn |-> "blended_score", pos |-> "", idx |-> i]
        /\ ret' = blended_score(candidates[i], state, settings)
        /\ UNCHANGED <<candidates, state, settings, ranked, ui, run>>

CallFinalRankScore ==
    \E i \in 1..Len(candidates) :
        /\ call' = [fn |-> "final_rank_score", pos |-> "", idx |-> i]
        /\ ret' = final_rank_score(candidates[i], state, settings)
        /\ UNCHANGED <<candidates, state, settings, ranked, ui, run>>

NextScore ==
    \/ CallValueOverAdp
    \/ CallBlendedScore
    \/ CallFinalRankScore

SpecScore == InitScore /\ [][NextScore]_vars

\* build_prompt, as far as its candidates_sorted: the prompt text around it
\* is not modelled
BuildPrompt ==
    /\ call' = [fn |-> "build_prompt", pos |-> "", idx |-> 0]
    /\ ranked' = shortlist_slice(sorted_by_final_rank_score(candidates, state, settings))
    /\ UNCHANGED <<candidates, state, settings, ret, ui, run>>

NextRank == BuildPrompt

SpecRank == InitRank /\ [][NextRank]_vars

---------------------------------------------------------------------------
(* Claims about the ranking step of build_prompt (SpecRank) *)

RankKey(p) == final_rank_score(p, state, settings)

\* where in the input list the candidate named by p stands
InputIndex(p) == CHOOSE i \in 1..Len(candidates) : candidates[i].player = p.player

\* C1: the shortlist is in non-increasing order of final_rank_score, and two
\* candidates of equal final_rank_score stand in their input order, whatever
\* their names.
C1_SortedDescendingStable ==
    call.fn = "build_prompt" =>
        \A i \in 1..Len(ranked), j \in 1..Len(ranked) :
            i < j =>
                /\ RankKey(ranked[i]) >= RankKey(ranked[j])
                /\ RankKey(ranked[i]) = RankKey(ranked[j]) =>
                      InputIndex(ranked[i]) < InputIndex(ranked[j])

\* build_prompt applied to a list that is out of order and holds two
\* candidates of equal score, of which the one named later comes first
C1_Witness ==
    /\ call.fn = "build_prompt"
    /\ \E a \in 1..Len(candidates), b \in 1..Len(candidates) :
          a < b /\ RankKey(candidates[a]) < RankKey(candidates[b])
    /\ \E i \in 1..Len(ranked), j \in 1..Len(ranked) :
          /\ i < j
          /\ RankKey(ranked[i]) = RankKey(ranked[j])
          /\ ranked[i].player > ranked[j].player

\* C2: the shortlist holds exactly min(len(candidates), 18) candidates, each
\* one of the input and none twice; a list of at most 18 comes back whole and
\* sorted; an empty list comes back empty.
C2_ShortlistSize ==
    call.fn = "build_prompt" =>
        /\ Len(ranked) = (IF Len(candidates) < 18 THEN Len(candidates) ELSE 18)
        /\ \A i \in 1..Len(ranked) :
              \E k \in 1..Len(candidates) : ranked[i] = candidates[k]
        /\ \A i \in 1..Len(ranked), j \in 1..Len(ranked) :
              i # j => ranked[i].player # ranked[j].player
        /\ Len(candidates) <= 18 =>
              /\ \A k \in 1..Len(candidates) :
                    \E i \in 1..Len(ranked) : ranked[i] = candidates[k]
              /\ \A i \in 1..Len(ranked), j \in 1..Len(ranked) :
                    i < j => RankKey(ranked[i]) >= RankKey(ranked[j])
        /\ candidates = <<>> => ranked = <<>>

\* build_prompt applied to more than 18 candidates that are out of order
C2_Witness ==
    /\ call.fn = "build_prompt"
    /\ Len(candidates) > 18
    /\ Len(ranked) = 18
    /\ \E a \in 1..Len(candidates), b \in 1..Len(candidates) :
          a < b /\ RankKey(candidates[a]) < RankKey(candidates[b])


---------------------------------------------------------------------------
(* Claims about need_weight (SpecNeed) *)

\* The state reached by applying need_weight
NeedCalled == call.fn = "need_weight"

\* A dict with the entry of key k removed (e = None) or set to Val(e)
WithEntry(d, k, e) ==
    IF IsNone(e)
        THEN [x \in DOMAIN d \ {k} |-> d[x]]
        ELSE [x \in DOMAIN d \cup {k} |-> IF x = k THEN Val(e) ELSE d[x]]

\* An entry of a dict: absent, or a count
Entries == {None} \cup {Some(v) : v \in 0..MaxCount}

\* starters, have and gap as the specification words them
StartersOf(pos, st, se) ==
    IF pos \in DOMAIN se.roster_limits THEN se.roster_limits[pos]
    ELSE IF pos \in DOMAIN st.starters_needed THEN st.starters_needed[pos]
    ELSE 0
HaveOf(pos, st) == IF pos \in DOMAIN st.roster_counts THEN st.roster_counts[pos] ELSE 0
GapOf(pos, st, se) ==
    IF StartersOf(pos, st, se) > HaveOf(pos, st)
        THEN StartersOf(pos, st, se) - HaveOf(pos, st) ELSE 0

\* C5: need_weight = 1.0 + 0.35*gap + (0.15 if turns_until_next_pick >= 2)
\* + (0.1 if RB or WR) + (0.6 if QB and SF), gap = max(starters - have, 0),
\* starters = roster_limits[pos] when that key is present, else
\* starters_needed[pos], else 0; have = roster_counts[pos] or 0.  (hundredths)
C5_NeedWeightFormula ==
    NeedCalled =>
        ret = 100 + 35 * GapOf(call.pos, state, settings)
                + (IF state.turns_until_next_pick >= 2 THEN 15 ELSE 0)
                + (IF call.pos = "RB" \/ call.pos = "WR" THEN 10 ELSE 0)
                + (IF call.pos = "QB" /\ settings.qb_format = "SF" THEN 60 ELSE 0)

\* need_weight("QB") applied to a superflex league whose roster_limits and
\* starters_needed both hold QB with different values, with an unmet starter
C5_Witness ==
    /\ NeedCalled
    /\ call.pos = "QB"
    /\ settings.qb_format = "SF"
    /\ "QB" \in DOMAIN settings.roster_limits
    /\ "QB" \in DOMAIN state.starters_needed
    /\ settings.roster_limits["QB"] > state.starters_needed["QB"]
    /\ GapOf("QB", state, settings) > 0
    /\ state.turns_until_next_pick >= 2

\* C6: need_weight is defined and >= 1.0 for every position, also one that is
\* a key of none of the three dicts, and is exactly 1.0 when gap = 0,
\* turns_until_next_pick < 2 and no position bonus applies.
C6_NeedWeightAtLeastOne ==
    NeedCalled =>
        /\ ret \in Int
        /\ ret >= 100
        /\ ( /\ GapOf(call.pos, state, settings) = 0
             /\ state.turns_until_next_pick < 2
             /\ call.pos \notin {"RB", "WR"}
             /\ ~(call.pos = "QB" /\ settings.qb_format = "SF") ) => ret = 100

\* need_weight applied to a position that is a key of none of the (non-empty)
\* dicts, and to a roster that holds more of a position than it starts
C6_Witness ==
    /\ NeedCalled
    /\ call.pos = "UNK"
    /\ call.pos \notin DOMAIN settings.roster_limits
    /\ call.pos \notin DOMAIN state.starters_needed
    /\ call.pos \notin DOMAIN state.roster_counts
    /\ DOMAIN settings.roster_limits # {}
    /\ DOMAIN state.starters_needed # {}
    /\ DOMAIN state.roster_counts # {}
    /\ state.turns_until_next_pick < 2
    /\ ret = 100

\* C7: for a fixed position, qb_format and turns_until_next_pick, a context
\* with a gap at least as large has a need_weight at least as large; raising
\* roster_counts[pos] never raises it, raising the starter requirement never
\* lowers it.  The other context differs in the position's entry of each dict.
C7_NeedWeightMonotoneInGap ==
    NeedCalled =>
        LET s1 == StartersOf(call.pos, state, settings)
            h1 == HaveOf(call.pos, state)
            gap1 == GapOf(call.pos, state, settings)
        IN  \A rl \in Entries, sn \in Entries, rc \in Entries :
                LET st2 == [state EXCEPT
                              !.roster_counts = WithEntry(@, call.pos, rc),
                              !.starters_needed = WithEntry(@, call.pos, sn)]
                    se2 == [settings EXCEPT
                              !.roster_limits = WithEntry(@, call.pos, rl)]
                    s2 == StartersOf(call.pos, st2, se2)
                    h2 == HaveOf(call.pos, st2)
                    gap2 == GapOf(call.pos, st2, se2)
                    nw2 == need_weight(call.pos, st2, se2)
                IN  /\ gap1 <= gap2 => ret <= nw2
                    /\ gap2 <= gap1 => nw2 <= ret
                    /\ (s2 = s1 /\ h2 >= h1) => nw2 <= ret
                    /\ (h2 = h1 /\ s2 >= s1) => nw2 >= ret

\* need_weight applied where the roster holds more of the position than it
\* starts (gap clamped to 0) and a context with a larger gap exists
C7_Witness ==
    /\ NeedCalled
    /\ HaveOf(call.pos, state) > StartersOf(call.pos, state, settings)
    /\ StartersOf(call.pos, state, settings) > 0
    /\ ret = 100

\* C8: need_weight("QB") under SF is need_weight("QB") under 1QB plus exactly
\* 0.6, all else equal; need_weight of a non-QB position is the same under both.
C8_SuperflexQbBonus ==
    NeedCalled =>
        LET sf == need_weight(call.pos, state, [settings EXCEPT !.qb_format = "SF"])
            one == need_weight(call.pos, state, [settings EXCEPT !.qb_format = "1QB"])
        IN  /\ ret = (IF settings.qb_format = "SF" THEN sf ELSE one)
            /\ call.pos = "QB" => (sf >= one /\ sf - one = 60)
            /\ call.pos # "QB" => sf = one

\* need_weight applied to QB in a superflex league, with an unmet QB starter
C8_Witness ==
    /\ NeedCalled
    /\ call.pos = "QB"
    /\ settings.qb_format = "SF"
    /\ GapOf("QB", state, settings) > 0
    /\ ret >= 195

---------------------------------------------------------------------------
(* Claims about value_over_adp, blended_score and final_rank_score (SpecScore) *)

\* The candidate the scoring function was applied to
Scored == candidates[call.idx]

\* C9: value_over_adp is exactly 0 when ADP is absent and ADP - current pick
\* otherwise: positive exactly when ADP exceeds the pick number, negative
\* exactly when ADP is below it.  (whole picks)
C9_ValueOverAdp ==
    call.fn = "value_over_adp" =>
        /\ IsNone(Scored.adp) => ret = 0
        /\ ~IsNone(Scored.adp) =>
              /\ ret = Val(Scored.adp) - state.pick_overall
              /\ ret > 0 <=> Val(Scored.adp) > state.pick_overall
              /\ ret < 0 <=> Val(Scored.adp) < state.pick_overall

\* value_over_adp applied to a candidate whose ADP is present, 0.0, and below the pick
C9_Witness ==
    /\ call.fn = "value_over_adp"
    /\ ~IsNone(Scored.adp)
    /\ Val(Scored.adp) = 0
    /\ ret < 0

\* the terms of blended_score as the specification words them, in 1/12000:
\* 0.55 * proj/50 = 132 * proj, 0.35 * voa/24 = 175 * voa, 0.10 * 0.25 * t = 300 * t
ProjOrZeroWhenAbsent(p) == IF IsNone(p.proj_pts) THEN 0 ELSE Val(p.proj_pts)
TierOrFiveWhenAbsent(p) == IF IsNone(p.tier) THEN 5 ELSE Val(p.tier)
MeritWithoutTier(p) ==
    132 * ProjOrZeroWhenAbsent(p) + 175 * value_over_adp(p, state.pick_overall)

\* C3: blended_score = 0.55*(proj/50) + 0.35*(voa/24) + 0.10*(-0.25*t), with
\* proj = proj_pts, or 0 when proj_pts is absent, voa = value_over_adp(candidate,
\* state.pick_overall), and t = tier, or 5 when tier is absent.
C3_BlendedFormula ==
    call.fn = "blended_score" =>
        ret = MeritWithoutTier(Scored) - 300 * TierOrFiveWhenAbsent(Scored)

Sign(x) == IF x > 0 THEN 1 ELSE IF x < 0 THEN 0 - 1 ELSE 0

\* C10: final_rank_score = blended_score * need_weight(position); when
\* blended_score is negative and need_weight > 1 the final score is strictly
\* less than blended_score; the sign of final_rank_score is that of blended_score.
\* (final_rank_score in 1/1200000, blended_score in 1/12000, need_weight in 1/100)
C10_FinalIsBlendedTimesNeed ==
    call.fn = "final_rank_score" =>
        LET b == blended_score(Scored, state, settings)
            nw == need_weight(Scored.pos, state, settings)
        IN  /\ ret = b * nw
            /\ (b < 0 /\ nw > 100) => ret < b * 100
            /\ Sign(ret) = Sign(b)

\* final_rank_score applied to a candidate of negative merit at a position
\* with an unmet starter
C10_Witness ==
    /\ call.fn = "final_rank_score"
    /\ blended_score(Scored, state, settings) < 0
    /\ need_weight(Scored.pos, state, settings) >= 135
    /\ ret < 0

---------------------------------------------------------------------------
(* The worked scenario of the specification (SpecRank) *)

CandidateA == PlayerRow(0, "RB", Some(10), Some(300), Some(1))
CandidateB == PlayerRow(0, "QB", Some(50), Some(100), Some(4))

\* p is the row q, under whatever name
SameRow(p, q) == [p EXCEPT !.player = 0] = q

\* A and B are the candidates, in either order, at pick 24 of a 1QB league with
\* starters_needed = {RB: 2} and nothing on the roster or in roster_limits
ScenarioAB ==
    /\ Len(candidates) = 2
    /\ \/ SameRow(candidates[1], CandidateA) /\ SameRow(candidates[2], CandidateB)
       \/ SameRow(candidates[1], CandidateB) /\ SameRow(candidates[2], CandidateA)
    /\ state.pick_overall = 24
    /\ state.starters_needed = [k \in {"RB"} |-> 2]
    /\ state.roster_counts = EmptyDict
    /\ settings.roster_limits = EmptyDict
    /\ settings.qb_format = "1QB"

\* C11: in the scenario, for every turns_until_next_pick and either input
\* order, the ranking places A above B, blended_score(A) > blended_score(B)
\* and need_weight("RB") > need_weight("QB").
C11_ScenarioARanksAboveB ==
    (call.fn = "build_prompt" /\ ScenarioAB) =>
        /\ Len(ranked) = 2
        /\ SameRow(ranked[1], CandidateA)
        /\ SameRow(ranked[2], CandidateB)
        /\ blended_score(CandidateA, state, settings)
              > blended_score(CandidateB, state, settings)
        /\ need_weight("RB", state, settings) > need_weight("QB", state, settings)

\* build_prompt applied to <<B, A>> in the scenario, with a run likely before
\* the next pick
C11_Witness ==
    /\ call.fn = "build_prompt"
    /\ ScenarioAB
    /\ SameRow(candidates[1], CandidateB)
    /\ state.turns_until_next_pick >= 2
    /\ SameRow(ranked[1], CandidateA)

(***************************************************************************)
(* src/rankings_loader.py: load_rankings                                   *)
(*                                                                         *)
(* A text is a sequence of characters.  What a source holds (a file, a     *)
(* pasted text, the body behind a URL) is a content: either it cannot be   *)
(* read as a rankings table (pd.read_csv or _normalize_and_map_columns     *)
(* raises), or it yields rows.  env is what the function reads from its    *)
(* surroundings: st.secrets, os.environ, the web and the data directory.   *)
(* st.secrets is readable in every run that reaches load_rankings: app.py  *)
(* reads it unguarded at line 17.                                          *)
(***************************************************************************)
Contains(text, ch) == \E i \in 1..Len(text) : text[i] = ch

\* Python's truth value of an optional string
Truthy(x) == ~IsNone(x) /\ Val(x) # ""

\* a or b on optional strings
Or(a, b) == IF Truthy(a) THEN a ELSE b

\* d.get(k) on a dict of strings
GetOpt(d, k) == IF k \in DOMAIN d THEN Some(d[k]) ELSE None

DATA_FILES ==
    [sp \in {"NFL", "NBA", "MLB", "NHL"} |->
        CASE sp = "NFL" -> "data/nfl_default_rankings.csv"
          [] sp = "NBA" -> "data/nba_default_rankings.csv"
          [] sp = "MLB" -> "data/mlb_default_rankings.csv"
          [] sp = "NHL" -> "data/nhl_default_rankings.csv"]

\* f"{sport}_CSV_URL"
CsvUrlKey(sport) ==
    CASE sport = "NFL" -> "NFL_CSV_URL"
      [] sport = "NBA" -> "NBA_CSV_URL"
      [] sport = "MLB" -> "MLB_CSV_URL"
      [] sport = "NHL" -> "NHL_CSV_URL"

\* pd.read_csv followed by _normalize_and_map_columns(...).to_dict("records")
ReadRankings(content, source) ==
    IF content.ok
    THEN [raised |-> "", rows |-> content.rows, reads |-> <<source>>]
    ELSE [raised |-> "Exception", rows |-> <<>>, reads |-> <<source>>]

\* the URL of lines 127-133
RankingsUrl(sport, url_override, env) ==
    Or(url_override,
       Or(GetOpt(env.secrets_urls, sport),
          Or(GetOpt(env.environ, CsvUrlKey(sport)),
             Or(env.secrets_global,
                GetOpt(env.environ, "GLOBAL_RANKINGS_URL")))))

\* variant: a source that cannot be read is passed over for the next one
load_rankings_falls_through(sport, uploaded_csv, pasted_csv_text, url_override, env) ==
    LET url == RankingsUrl(sport, url_override, env)
        path == GetOpt(DATA_FILES, sport)
        up == ~IsNone(uploaded_csv) /\ Val(uploaded_csv).ok
        pa == /\ ~IsNone(pasted_csv_text)
              /\ Val(pasted_csv_text).text # <<>>
              /\ Contains(Val(pasted_csv_text).text, ",")
              /\ Val(pasted_csv_text).csv.ok
        ur == Truthy(url) /\ env.web[Val(url)].ok
    IN  IF up THEN ReadRankings(Val(uploaded_csv), "uploaded_csv")
        ELSE IF pa THEN ReadRankings(Val(pasted_csv_text).csv, "pasted_csv_text")
        ELSE IF ur THEN ReadRankings(env.web[Val(url)], Val(url))
        ELSE IF Truthy(path) /\ Val(path) \in DOMAIN env.files
        THEN ReadRankings(env.files[Val(path)], Val(path))
        ELSE [raised |-> "ValueError", rows |-> <<>>, reads |-> <<>>]

\* def load_rankings(sport, uploaded_csv=None, pasted_csv_text=None, url_override=None)
\* the result: raised is the exception ("" when it returns), rows the records
\* returned, reads the sources it read, in order
load_rankings(sport, uploaded_csv, pasted_csv_text, url_override, env) ==
    LET url == RankingsUrl(sport, url_override, env)
        path == GetOpt(DATA_FILES, sport)
    IN  IF ~IsNone(uploaded_csv)
        THEN ReadRankings(Val(uploaded_csv), "uploaded_csv")
        ELSE IF /\ ~IsNone(pasted_csv_text)
                /\ Val(pasted_csv_text).text # <<>>
                /\ Contains(Val(pasted_csv_text).text, ",")
        THEN ReadRankings(Val(pasted_csv_text).csv, "pasted_csv_text")
        ELSE IF Truthy(url)
        THEN ReadRankings(env.web[Val(url)], Val(url))
        ELSE IF Truthy(path) /\ Val(path) \in DOMAIN env.files
        THEN ReadRankings(env.files[Val(path)], Val(path))
        ELSE [raised |-> "ValueError", rows |-> <<>>, reads |-> <<>>]

(* ---- inputs of load_rankings ---- *)
\* a rankings record; team is dropped, no operation of the model reads it
RankRow(name, pos) == [player |-> name, pos |-> pos]

\* every source holds a table of its own, or something unreadable
Table(k) == [ok |-> TRUE, rows |-> <<RankRow(2 * k, "RB")>>]
Unreadable == [ok |-> FALSE, rows |-> <<>>]

Sports == {"NFL", "NBA"}
UrlOverride == "https://override"
UrlSecretsSport == "https://secrets/nfl"
UrlEnvSport == "https://env/nfl"
UrlSecretsGlobal == "https://secrets/global"
UrlEnvGlobal == "https://env/global"
Urls == {UrlOverride, UrlSecretsSport, UrlEnvSport, UrlSecretsGlobal, UrlEnvGlobal}

UrlTable(u) ==
    CASE u = UrlOverride -> Table(3)
      [] u = UrlSecretsSport -> Table(4)
      [] u = UrlEnvSport -> Table(5)
      [] u = UrlSecretsGlobal -> Table(6)
      [] u = UrlEnvGlobal -> Table(7)

Uploads == {None, Some(Table(1)), Some(Unreadable)}
Pasted ==
    {None} \cup
    { Some([text |-> t, csv |-> c]) :
        t \in {<<>>, <<"x">>, <<"x", ",", "y">>}, c \in {Table(2)} } \cup
    { Some([text |-> <<",">>, csv |-> Unreadable]) }
Overrides == {None, Some(UrlOverride)}
\* the RANKINGS_URLS table of the secrets and the environment variables
DictsOver(keys, values) ==
    UNION { [K -> values] : K \in SUBSET keys }
SecretsUrls == DictsOver({"NFL"}, {"", UrlSecretsSport})
Environs ==
    { e \in DictsOver({"NFL_CSV_URL", "GLOBAL_RANKINGS_URL"}, {UrlEnvSport, UrlEnvGlobal}) :
        /\ "NFL_CSV_URL" \in DOMAIN e => e["NFL_CSV_URL"] = UrlEnvSport
        /\ "GLOBAL_RANKINGS_URL" \in DOMAIN e => e["GLOBAL_RANKINGS_URL"] = UrlEnvGlobal }
Webs == { [u \in Urls |-> IF up THEN UrlTable(u) ELSE Unreadable] : up \in BOOLEAN }
Files == DictsOver({DATA_FILES["NFL"]}, {Table(8), Unreadable})

Envs ==
    [secrets_urls : SecretsUrls, secrets_global : {None, Some(UrlSecretsGlobal)},
     environ : Environs, web : Webs, files : Files]

InitLoad ==
    /\ candidates = <<>>
    /\ state = [roster_counts |-> EmptyDict, starters_needed |-> EmptyDict,
                pick_overall |-> 1, turns_until_next_pick |-> 0]
    /\ settings = [qb_format |-> "1QB", roster_limits |-> EmptyDict]
    /\ call = NoCall
    /\ ret = 0
    /\ ranked = <<>>
    /\ \E sp \in Sports, up \in Uploads, pa \in Pasted, ov \in Overrides, env \in Envs :
          ui = [pressed |-> FALSE, sport |-> sp, uploaded_csv |-> up,
                pasted_csv_text |-> pa, override_url |-> ov, env |-> env]
    /\ run = NoRun

CallLoadRankings ==
    /\ call.fn = "none"
    /\ call' = [fn |-> "load_rankings", pos |-> "", idx |-> 0]
    /\ ret' = load_rankings(ui.sport, ui.uploaded_csv, ui.pasted_csv_text,
                            ui.override_url, ui.env)
    /\ UNCHANGED <<candidates, state, settings, ranked, ui, run>>

NextLoad == CallLoadRankings

SpecLoad == InitLoad /\ [][NextLoad]_vars

(* ---- C13 ---- *)
LoadCalled == call.fn = "load_rankings"

\* the sources in the order of the claim, each with what makes it available
UploadGiven == ~IsNone(ui.uploaded_csv)
PasteGiven ==
    /\ ~IsNone(ui.pasted_csv_text)
    /\ Len(Val(ui.pasted_csv_text).text) > 0
    /\ Contains(Val(ui.pasted_csv_text).text, ",")
SourceUrls ==
    << ui.override_url,
       GetOpt(ui.env.secrets_urls, ui.sport),
       GetOpt(ui.env.environ, CsvUrlKey(ui.sport)),
       ui.env.secrets_global,
       GetOpt(ui.env.environ, "GLOBAL_RANKINGS_URL") >>
UrlGiven(i) == Truthy(SourceUrls[i])
FileGiven ==
    ui.sport \in DOMAIN DATA_FILES /\ DATA_FILES[ui.sport] \in DOMAIN ui.env.files
FirstUrl == CHOOSE i \in 1..5 : UrlGiven(i) /\ \A j \in 1..(i - 1) : ~UrlGiven(j)
FirstSource ==
    IF UploadGiven THEN "uploaded_csv"
    ELSE IF PasteGiven THEN "pasted_csv_text"
    ELSE IF \E i \in 1..5 : UrlGiven(i) THEN Val(SourceUrls[FirstUrl])
    ELSE IF FileGiven THEN DATA_FILES[ui.sport]
    ELSE "none"

\* C13: load_rankings reads exactly one source, the first available one in
\* the order upload, pasted text with a comma, URL override, secrets URL of
\* the sport, <SPORT>_CSV_URL, GLOBAL_RANKINGS_URL, local data file; it
\* returns that source's rows or raises what reading it raised; when no source
\* is available it reads nothing, returns nothing and raises ValueError.
C13_FirstSourceOnly ==
    LoadCalled =>
        IF FirstSource = "none"
        THEN ret.raised = "ValueError" /\ ret.reads = <<>> /\ ret.rows = <<>>
        ELSE /\ ret.reads = <<FirstSource>>
             /\ ret.raised # "ValueError"
             /\ ret.raised # "" => ret.rows = <<>>

\* the upload is unreadable while the pasted text, a URL and the file are
\* all available: the call raises, having read the upload only
C13_Witness ==
    /\ LoadCalled
    /\ UploadGiven /\ ~Val(ui.uploaded_csv).ok
    /\ PasteGiven /\ Val(ui.pasted_csv_text).csv.ok
    /\ UrlGiven(2) /\ UrlGiven(5) /\ FileGiven
    /\ ret.raised = "Exception"
    /\ ret.reads = <<"uploaded_csv">>

(***************************************************************************)
(* src/app.py: _infer_roster_counts                                        *)
(* A roster line is a sequence of characters; a position key is one too.   *)
(***************************************************************************)
\* longest roster line of the model
MaxLineLen == 3

\* variant: the text before the last colon
split_head_last(ln) ==
    LET i == CHOOSE i \in 1..Len(ln) :
                 ln[i] = ":" /\ \A j \in (i + 1)..Len(ln) : ln[j] # ":"
    IN  SubSeq(ln, 1, i - 1)

\* ln.split(":", 1)[0], for a line that holds a colon
split_head(ln) ==
    LET i == CHOOSE i \in 1..Len(ln) :
                 ln[i] = ":" /\ \A j \in 1..(i - 1) : ln[j] # ":"
    IN  SubSeq(ln, 1, i - 1)

\* str.strip()
strip(s) ==
    LET inked == { i \in 1..Len(s) : s[i] # " " }
    IN  IF inked = {} THEN <<>>
        ELSE SubSeq(s, CHOOSE a \in inked : \A i \in inked : a <= i,
                       CHOOSE b \in inked : \A i \in inked : b >= i)

\* str.upper()
upper(s) == [i \in 1..Len(s) |-> IF s[i] = "r" THEN "R" ELSE s[i]]

\* counts[pos] = v
Put(d, k, v) == [x \in DOMAIN d \cup {k} |-> IF x = k THEN v ELSE d[x]]

\* the loop of _infer_roster_counts from line i on
RECURSIVE CountLines(_, _, _)
CountLines(lines, i, counts) ==
    IF i > Len(lines) THEN counts
    ELSE LET ln == lines[i]
         IN  IF Contains(ln, ":")
             THEN LET pos == upper(strip(split_head(ln)))
                  IN  IF pos # <<>>
                      THEN CountLines(lines, i + 1, Put(counts, pos, Get(counts, pos, 0) + 1))
                      ELSE CountLines(lines, i + 1, counts)
             ELSE CountLines(lines, i + 1, counts)

\* def _infer_roster_counts(lines)
infer_roster_counts(lines) == CountLines(lines, 1, EmptyDict)

(* ---- inputs of _infer_roster_counts ---- *)
LineChars == {"r", " ", ":"}
\* every line over LineChars, and two lines written in upper case
RosterLines ==
    UNION { [1..n -> LineChars] : n \in 0..MaxLineLen }
        \cup { <<"R", ":">>, <<"R", "r", ":">> }
\* lists of no, one, two and three lines, the third a repeat of the first
RosterLists ==
    {<<>>} \cup { <<a>> : a \in RosterLines }
           \cup { <<a, b>> : a \in RosterLines, b \in RosterLines }
           \cup { <<a, b, a>> : a \in RosterLines, b \in RosterLines }

InitRoster ==
    /\ candidates = <<>>
    /\ state = [roster_counts |-> EmptyDict, starters_needed |-> EmptyDict,
                pick_overall |-> 1, turns_until_next_pick |-> 0]
    /\ settings = [qb_format |-> "1QB", roster_limits |-> EmptyDict]
    /\ call = NoCall
    /\ ret = 0
    /\ ranked = <<>>
    /\ \E lines \in RosterLists : ui = [pressed |-> FALSE, my_roster |-> lines]
    /\ run = NoRun

CallInferRosterCounts ==
    /\ call.fn = "none"
    /\ call' = [fn |-> "_infer_roster_counts", pos |-> "", idx |-> 0]
    /\ ret' = infer_roster_counts(ui.my_roster)
    /\ UNCHANGED <<candidates, state, settings, ranked, ui, run>>

NextRoster == CallInferRosterCounts

SpecRoster == InitRoster /\ [][NextRoster]_vars

(* ---- C14 ---- *)
CountsInferred == call.fn = "_infer_roster_counts"

\* the text before the first colon of a line, stripped and uppercased
BeforeFirstColon(ln) ==
    CHOOSE p \in { SubSeq(ln, 1, k) : k \in 0..(Len(ln) - 1) } :
        ln[Len(p) + 1] = ":" /\ ~Contains(p, ":")
PrefixOf(ln) == upper(strip(BeforeFirstColon(ln)))
\* the lines that hold a colon after a prefix that is not blank
Parseable ==
    { i \in 1..Len(ui.my_roster) :
        Contains(ui.my_roster[i], ":") /\ Len(PrefixOf(ui.my_roster[i])) > 0 }
LinesOf(P) == { i \in Parseable : PrefixOf(ui.my_roster[i]) = P }

RECURSIVE SumOver(_, _)
SumOver(d, keys) ==
    IF keys = {} THEN 0
    ELSE LET k == CHOOSE k \in keys : TRUE
         IN  d[k] + SumOver(d, keys \ {k})

\* C14: the mapping returned by _infer_roster_counts has exactly the prefixes
\* of the parseable lines as keys, the count of position P is the number of
\* parseable lines whose prefix is P, the counts sum to the number of
\* parseable lines, and without a parseable line the mapping is empty.
C14_CountsPerPrefix ==
    CountsInferred =>
        /\ DOMAIN ret = { PrefixOf(ui.my_roster[i]) : i \in Parseable }
        /\ \A P \in DOMAIN ret : ret[P] = Cardinality(LinesOf(P))
        /\ SumOver(ret, DOMAIN ret) = Cardinality(Parseable)
        /\ Parseable = {} => ret = EmptyDict

\* three lines counted under R, two written in lower case after a blank and
\* one in upper case
C14_Witness ==
    /\ CountsInferred
    /\ ui.my_roster = << <<" ", "r", ":">>, <<"R", ":">>, <<" ", "r", ":">> >>
    /\ ret = [k \in {<<"R">>} |-> 3]

\* a list whose lines all lack a colon or a prefix gives the empty mapping
C14_WitnessNone ==
    /\ CountsInferred
    /\ ui.my_roster = << <<"r", "r">>, <<" ", ":", "r">> >>
    /\ ret = EmptyDict

(***************************************************************************)
(* src/utils.py: minus_drafted                                             *)
(*                                                                         *)
(* A player name is the number 2 * person + spelling: the two spellings of *)
(* a person differ in case or accents only, which normalize_name removes.  *)
(* rapidfuzz's ratio is 100 on equal normalized names; the names of the    *)
(* persons 1 and 2 are close (92), all other pairs are far apart (40).     *)
(***************************************************************************)
normalize_name(name) == name \div 2

fuzz_ratio(a, b) ==
    IF a = b THEN 100 ELSE IF {a, b} = {1, 2} THEN 92 ELSE 40

\* the row's player matches a drafted name
Taken(row, drafted_list, thresh) ==
    \E i \in 1..Len(drafted_list) :
        fuzz_ratio(normalize_name(row.player), normalize_name(drafted_list[i])) >= thresh

\* def minus_drafted(rankings, drafted_list, thresh=90)
minus_drafted(rankings, drafted_list, thresh) ==
    LET Free(row) == ~Taken(row, drafted_list, thresh)
    IN  SelectSeq(rankings, Free)

(***************************************************************************)
(* src/draft_assistant.py: get_draft_recommendations_wrapper, keyword      *)
(* style.  kw is the record of keyword arguments, each None or a value.    *)
(***************************************************************************)
\* x if x is not None else d
IfNotNone(x, d) == IF IsNone(x) THEN d ELSE Val(x)

\* x or d, for an optional dict
DictOr(x, d) == IF IsNone(x) \/ DOMAIN Val(x) = {} THEN d ELSE Val(x)

\* x or d, for an optional string
StrOr(x, d) == IF Truthy(x) THEN Val(x) ELSE d

\* state.get(k, d) if state else d
BaseGet(base, k, d) ==
    IF IsNone(base) \/ DOMAIN Val(base) = {} THEN d ELSE Get(Val(base), k, d)

\* variant: the names are taken for running backs
df_to_players_as_rb(df) ==
    [i \in 1..Len(df) |-> PlayerRow(df[i], "RB", None, None, None)]

\* def _df_to_players(df), for a list of names
df_to_players(df) ==
    [i \in 1..Len(df) |-> PlayerRow(df[i], "UNK", None, None, None)]

\* def _ensure_state(state, *, next_pick, draft_round, ...)
ensure_state(state_dict, kw) ==
    [picks_made |-> BaseGet(state_dict, "picks_made", <<>>),
     roster_counts |->
        DictOr(kw.roster_counts, BaseGet(state_dict, "roster_counts", EmptyDict)),
     starters_needed |->
        DictOr(kw.starters_needed, BaseGet(state_dict, "starters_needed", EmptyDict)),
     bench_slots_left |->
        IfNotNone(kw.bench_slots_left, BaseGet(state_dict, "bench_slots_left", 0)),
     draft_round |-> IfNotNone(kw.draft_round, BaseGet(state_dict, "draft_round", 1)),
     pick_overall |-> IfNotNone(kw.next_pick, BaseGet(state_dict, "pick_overall", 1)),
     turns_until_next_pick |->
        IfNotNone(kw.turns_until_next_pick,
                  BaseGet(state_dict, "turns_until_next_pick", 2))]

\* def _ensure_settings(settings, *, teams, scoring, qb_format, roster_limits)
ensure_settings(settings_dict, kw) ==
    [teams |-> IfNotNone(kw.teams, BaseGet(settings_dict, "teams", 12)),
     scoring |-> StrOr(kw.scoring, BaseGet(settings_dict, "scoring", "PPR")),
     qb_format |-> StrOr(kw.qb_format, BaseGet(settings_dict, "qb_format", "1QB")),
     roster_limits |->
        DictOr(kw.roster_limits, BaseGet(settings_dict, "roster_limits", DefaultLimits))]

\* get_draft_recommendations_wrapper up to the model call: the candidates,
\* the state, the settings and build_prompt's shortlist
Prepared(kw) ==
    LET cands == df_to_players(kw.available)
        st == ensure_state(None, kw)
        se == ensure_settings(None, kw)
    IN  [candidates |-> cands, state |-> st, settings |-> se,
         ranked |-> shortlist_slice(sorted_by_final_rank_score(cands, st, se))]

(***************************************************************************)
(* src/app.py: the handler of the action button, lines 99-182              *)
(*                                                                         *)
(* run.pc is where the handler stands: "idle" before the press,            *)
(* "load_rankings" and "call_model" while the call of that name is under   *)
(* way, "stopped" after st.stop(), "done" at the end of the script.        *)
(* run.loads and run.model_calls count the calls made, run.messages are    *)
(* the st.error / st.warning texts shown, run.rendered tells that          *)
(* pretty_render has drawn recommendations.                                *)
(***************************************************************************)
\* most teams and highest pick number of the model
MaxTeams == 8
MaxPickNo == 17
\* longest rankings table and longest drafted list of the model
MaxRows == 2
MaxDrafted == 2

MIN_TEAMS == 6
DEFAULT_TEAMS == 12
DEFAULT_NEXT_PICK == 24
DEFAULT_TOP_N == 80
DEFAULT_BENCH_LEFT == 8

\* "".join(chars)
RECURSIVE Join(_)
Join(chars) == IF chars = <<>> THEN "" ELSE chars[1] \o Join(Tail(chars))

\* line 140
draft_round_est(next_pick, league_size) == ((next_pick - 1) \div league_size) + 1

\* variant: the pick itself is counted among the picks still to come
turns_until_next_with_own_pick(next_pick, league_size) ==
    league_size - ((next_pick - 1) % league_size)

\* line 141
turns_until_next_est(next_pick, league_size) ==
    league_size - ((next_pick - 1) % league_size) - 1

\* _infer_roster_counts(my_roster), its keys as strings
roster_counts_dict(my_roster) ==
    LET counts == infer_roster_counts(my_roster)
    IN  [k \in { Join(key) : key \in DOMAIN counts } |->
            counts[CHOOSE key \in DOMAIN counts : Join(key) = k]]

\* the keyword arguments of lines 150-165
KeywordArgs(u, available_names) ==
    [available |-> available_names,
     next_pick |-> Some(u.next_pick),
     draft_round |-> Some(draft_round_est(u.next_pick, u.num_teams)),
     turns_until_next_pick |-> Some(turns_until_next_est(u.next_pick, u.num_teams)),
     roster_counts |-> Some(roster_counts_dict(u.my_roster)),
     starters_needed |-> Some(DefaultStarters),
     bench_slots_left |-> Some(u.bench_left),
     teams |-> Some(u.num_teams),
     scoring |-> Some(IF u.scoring = "Half-PPR" THEN "Half-PPR"
                      ELSE IF u.scoring = "Standard" THEN "Standard" ELSE "PPR"),
     qb_format |-> Some("1QB"),
     roster_limits |-> Some(DefaultLimits)]

\* st.error(...) or st.warning(...), then st.stop()
Stop(r, message) == [r EXCEPT !.pc = "stopped", !.messages = Append(@, message)]

\* variant: a model call that raised is made again
AfterModelRetrying(r, outcome) ==
    IF outcome = "raises"
    THEN IF r.model_calls < 3 THEN [r EXCEPT !.model_calls = @ + 1]
         ELSE Stop(r, "Assistant error")
    ELSE [r EXCEPT !.pc = "done", !.rendered = (outcome = "recommendations")]

\* lines 166-181: what follows the model call
AfterModel(r, outcome) ==
    IF outcome = "raises" THEN Stop(r, "Assistant error")
    ELSE IF outcome = "recommendations"
    THEN [r EXCEPT !.pc = "done", !.rendered = TRUE]
    ELSE IF outcome = "nothing"
    THEN [r EXCEPT !.pc = "done", !.messages = Append(@, "No recommendations returned.")]
    ELSE [r EXCEPT !.pc = "done", !.messages = Append(@, "Could not render structured output")]

\* what the model call can bring: an exception, a dict of recommendations, an
\* empty dict, a dict pretty_render cannot draw
ModelOutcomes == {"raises", "recommendations", "nothing", "undrawable"}

ButtonPressed ==
    /\ run.pc = "idle"
    /\ run' = [run EXCEPT !.pc = "load_rankings", !.loads = @ + 1]
    /\ UNCHANGED <<candidates, state, settings, call, ret, ranked, ui>>

RankingsLoaded ==
    /\ run.pc = "load_rankings"
    /\ LET res == load_rankings(ui.sport, ui.uploaded_csv, ui.pasted_csv_text,
                                ui.override_url, ui.env)
           available_records == minus_drafted(res.rows, ui.drafted, ui.fuzzy_thresh)
           top_available ==
               SubSeq(available_records, 1, Min(Len(available_records), ui.topN))
           available_names == [i \in 1..Len(top_available) |-> top_available[i].player]
           prep == Prepared(KeywordArgs(ui, available_names))
       IN  IF res.raised # ""
           THEN /\ run' = Stop(run, "Rankings unavailable")
                /\ UNCHANGED <<candidates, state, settings, ranked>>
           ELSE IF res.rows = <<>>
           THEN /\ run' = Stop([run EXCEPT !.rankings = Some(res.rows)],
                               "No rankings available")
                /\ UNCHANGED <<candidates, state, settings, ranked>>
           ELSE IF Len(available_records) = 0
           THEN /\ run' = Stop([run EXCEPT !.rankings = Some(res.rows)],
                               "All players in rankings appear drafted")
                /\ UNCHANGED <<candidates, state, settings, ranked>>
           ELSE /\ run' = [run EXCEPT !.pc = "call_model", !.model_calls = @ + 1,
                                      !.rankings = Some(res.rows),
                                      !.available = available_names]
                /\ candidates' = prep.candidates
                /\ state' = prep.state
                /\ settings' = prep.settings
                /\ ranked' = prep.ranked
    /\ UNCHANGED <<call, ret, ui>>

ModelAnswered ==
    /\ run.pc = "call_model"
    /\ \E outcome \in ModelOutcomes :
          run' = AfterModel([run EXCEPT !.answer = outcome], outcome)
    /\ UNCHANGED <<candidates, state, settings, call, ret, ranked, ui>>

NextApp == ButtonPressed \/ RankingsLoaded \/ ModelAnswered

(* ---- inputs of a script run with the button pressed ---- *)
Names == {2, 3, 4, 6}
FuzzyThreshs == {80, 90, 95}

SeqsUpTo(S, n) == UNION { [1..k -> S] : k \in 0..n }
Distinct(seq) == \A i, j \in 1..Len(seq) : i # j => seq[i] # seq[j]

RankingLists ==
    { [i \in 1..Len(names) |-> RankRow(names[i], "RB")] : names \in SeqsUpTo(Names, MaxRows) }
RankingTables == { [ok |-> TRUE, rows |-> rows] : rows \in RankingLists }
\* parse_lines(drafted_txt): no name twice
DraftedLists == { d \in SeqsUpTo(Names, MaxDrafted) : Distinct(d) }

NoSecretsEnv(files) ==
    [secrets_urls |-> EmptyDict, secrets_global |-> None, environ |-> EmptyDict,
     web |-> [u \in Urls |-> Unreadable], files |-> files]
LocalFiles == {EmptyDict, [k \in {DATA_FILES["NFL"]} |-> Table(8)]}
LiveEnvs ==
    [secrets_urls : {EmptyDict, [k \in {"NFL"} |-> UrlSecretsSport]},
     secrets_global : {None}, environ : {EmptyDict}, web : Webs,
     files : LocalFiles]

\* the radio of lines 46-64 sets one of upload, pasted text and override URL
SourceChoices ==
    { [uploaded_csv |-> up, pasted_csv_text |-> None, override_url |-> None,
       env |-> NoSecretsEnv(f)] :
        up \in {None, Some(Unreadable)} \cup { Some(t) : t \in RankingTables },
        f \in LocalFiles } \cup
    { [uploaded_csv |-> None, pasted_csv_text |-> Some(pa), override_url |-> None,
       env |-> NoSecretsEnv(f)] :
        pa \in [text : {<<>>, <<"x">>}, csv : {Unreadable}] \cup
               [text : {<<"x", ",", "y">>}, csv : {Unreadable} \cup RankingTables],
        f \in LocalFiles } \cup
    { [uploaded_csv |-> None, pasted_csv_text |-> None, override_url |-> ov,
       env |-> e] : ov \in Overrides, e \in LiveEnvs }

Ui(src, drafted, my_roster, num_teams, next_pick, fuzzy_thresh) ==
    [pressed |-> TRUE, sport |-> "NFL", scoring |-> "PPR",
     uploaded_csv |-> src.uploaded_csv, pasted_csv_text |-> src.pasted_csv_text,
     override_url |-> src.override_url, env |-> src.env,
     drafted |-> drafted, my_roster |-> my_roster,
     num_teams |-> num_teams, next_pick |-> next_pick,
     fuzzy_thresh |-> fuzzy_thresh, topN |-> DEFAULT_TOP_N,
     bench_left |-> DEFAULT_BENCH_LEFT]

UploadOf(names) ==
    [uploaded_csv |-> Some([ok |-> TRUE,
                            rows |-> [i \in 1..Len(names) |-> RankRow(names[i], "RB")]]),
     pasted_csv_text |-> None, override_url |-> None, env |-> NoSecretsEnv(EmptyDict)]

IdleRun ==
    [pc |-> "idle", loads |-> 0, model_calls |-> 0, messages |-> <<>>,
     rendered |-> FALSE, rankings |-> None, available |-> <<>>, answer |-> ""]

InitRequest ==
    /\ candidates = <<>>
    /\ state = [roster_counts |-> EmptyDict, starters_needed |-> EmptyDict,
                pick_overall |-> 1, turns_until_next_pick |-> 0]
    /\ settings = [qb_format |-> "1QB", roster_limits |-> EmptyDict]
    /\ call = NoCall
    /\ ret = 0
    /\ ranked = <<>>
    /\ \/ \E src \in SourceChoices, d \in DraftedLists, th \in FuzzyThreshs :
             ui = Ui(src, d, <<>>, DEFAULT_TEAMS, DEFAULT_NEXT_PICK, th)
       \/ \E L \in MIN_TEAMS..MaxTeams, n \in 1..MaxPickNo,
             lines \in {<<>>, << <<"r", ":">> >>} :
             ui = Ui(UploadOf(<<2, 4>>), <<>>, lines, L, n, 90)
    /\ run = IdleRun

SpecApp == InitRequest /\ [][NextApp]_vars

(* ---- C12 ---- *)
\* what the rankings load of this run brings
LoadResult ==
    load_rankings(ui.sport, ui.uploaded_csv, ui.pasted_csv_text, ui.override_url, ui.env)
LoadRaises == LoadResult.raised # ""
NoRows == ~LoadRaises /\ Len(LoadResult.rows) = 0
\* every ranked player matches a drafted name at the chosen sensitivity
EveryPlayerDrafted ==
    /\ ~LoadRaises
    /\ Len(LoadResult.rows) > 0
    /\ \A i \in 1..Len(LoadResult.rows) : \E j \in 1..Len(ui.drafted) :
          fuzz_ratio(normalize_name(LoadResult.rows[i].player),
                     normalize_name(ui.drafted[j])) >= ui.fuzzy_thresh
HandlerOver == run.pc \in {"stopped", "done"}

\* C12: in one request the rankings load and the model call are each made
\* at most once; the model call is made only after a load that returned a
\* non-empty list of which some player is left undrafted; and when the load
\* raises, returns no rows, every player is drafted or the model call raises,
\* the handler ends stopped, with a message shown and nothing rendered.
C12_OneAttemptThenStop ==
    ui.pressed =>
        /\ run.loads <= 1
        /\ run.model_calls <= 1
        /\ run.model_calls >= 1 =>
              /\ run.loads = 1
              /\ ~LoadRaises /\ ~NoRows /\ ~EveryPlayerDrafted
              /\ run.rankings = Some(LoadResult.rows)
              /\ Len(run.available) > 0
        /\ (LoadRaises \/ NoRows \/ EveryPlayerDrafted) => run.model_calls = 0
        /\ (HandlerOver /\ (LoadRaises \/ NoRows \/ EveryPlayerDrafted
                              \/ run.answer = "raises")) =>
              /\ run.pc = "stopped"
              /\ Len(run.messages) = 1
              /\ ~run.rendered

\* the model call raised after a load from which a drafted player was removed
C12_Witness ==
    /\ ui.pressed
    /\ run.pc = "stopped"
    /\ run.loads = 1 /\ run.model_calls = 1
    /\ run.answer = "raises"
    /\ Len(run.available) < Len(Val(run.rankings))
    /\ run.messages = <<"Assistant error">>

\* every player was matched to a drafted name, one of them by a close name only
C12_WitnessAllDrafted ==
    /\ ui.pressed
    /\ run.pc = "stopped"
    /\ EveryPlayerDrafted
    /\ Len(LoadResult.rows) = 2 /\ Len(ui.drafted) = 1
    /\ LoadResult.rows[1].player # LoadResult.rows[2].player
    /\ run.loads = 1 /\ run.model_calls = 0

(* ---- C15 ---- *)
\* the handler has handed its draft math to the wrapper
DraftMathPassed == ui.pressed /\ run.model_calls >= 1

\* picks of the current round that come after pick n
PicksLeftInRound(n, L, round) == round * L - n

\* the claim's equations for league size L and pick n
DraftMathHolds(n, L, round, turns) ==
    /\ round = ((n - 1) \div L) + 1
    /\ round >= 1
    /\ turns = L - ((n - 1) % L) - 1
    /\ 0 <= turns /\ turns <= L - 1
    /\ (round - 1) * L + (L - turns) = n

\* C15: the draft round and the turns until the next pick that the handler
\* passes to scoring satisfy round = ((n - 1) div L) + 1 >= 1,
\* turns = L - ((n - 1) mod L) - 1 in 0..L-1 and
\* (round - 1) * L + (L - turns) = n, for the league size and pick of the
\* run and for every L in 1..MaxTeams and n in 1..MaxPickNo; need_weight
\* carries the run-risk boost exactly when at least two picks of the
\* current round come after pick n.
C15_DraftMath ==
    DraftMathPassed =>
        /\ state.pick_overall = ui.next_pick
        /\ settings.teams = ui.num_teams
        /\ DraftMathHolds(ui.next_pick, ui.num_teams,
                          state.draft_round, state.turns_until_next_pick)
        /\ \A L \in 1..MaxTeams, n \in 1..MaxPickNo :
              DraftMathHolds(n, L, draft_round_est(n, L), turns_until_next_est(n, L))
        /\ need_weight("UNK", state, settings) =
              NEED_BASE +
              (IF PicksLeftInRound(ui.next_pick, ui.num_teams, state.draft_round) >= 2
               THEN RUN_RISK_BOOST ELSE 0)

\* a pick in the second round or later with the boost
C15_Witness ==
    /\ DraftMathPassed
    /\ state.draft_round >= 2
    /\ state.turns_until_next_pick >= 2
    /\ ui.next_pick % ui.num_teams # 0
    /\ need_weight("UNK", state, settings) = NEED_BASE + RUN_RISK_BOOST

\* the last two picks of a round go without the boost
C15_WitnessNoBoost ==
    /\ DraftMathPassed
    /\ \E t \in {0, 1} : state.turns_until_next_pick = t
    /\ need_weight("UNK", state, settings) = NEED_BASE

(***************************************************************************)
(* get_draft_recommendations_wrapper called keyword style on its own       *)
(***************************************************************************)
UnkDict(v) == [k \in {"UNK"} |-> v]

\* lists of a few names, repeats allowed, and lists around the shortlist size
ShortNameLists == SeqsUpTo(Names, MaxCands)
LongNameLists ==
    { [i \in 1..n |-> NameOf(i + k)] :
        n \in (SHORTLIST - LongSlack)..(SHORTLIST + LongSlack), k \in 0..1 }

KwContexts ==
    [next_pick : {Some(DEFAULT_NEXT_PICK)},
     draft_round : {Some(2)},
     turns_until_next_pick : {None} \cup { Some(t) : t \in 0..MaxTurns },
     roster_counts : {None, Some([k \in {"RB"} |-> 1]), Some(UnkDict(1))},
     starters_needed : {None, Some(DefaultStarters), Some(UnkDict(2))},
     bench_slots_left : {Some(DEFAULT_BENCH_LEFT)},
     teams : {Some(DEFAULT_TEAMS)},
     scoring : {Some("PPR")},
     qb_format : {None, Some("1QB"), Some("SF")},
     roster_limits : {None, Some(DefaultLimits), Some(UnkDict(1))}]

WithAvailable(ctx, names) ==
    [available |-> names,
     next_pick |-> ctx.next_pick, draft_round |-> ctx.draft_round,
     turns_until_next_pick |-> ctx.turns_until_next_pick,
     roster_counts |-> ctx.roster_counts, starters_needed |-> ctx.starters_needed,
     bench_slots_left |-> ctx.bench_slots_left, teams |-> ctx.teams,
     scoring |-> ctx.scoring, qb_format |-> ctx.qb_format,
     roster_limits |-> ctx.roster_limits]

InitWrapper ==
    /\ candidates = <<>>
    /\ state = [roster_counts |-> EmptyDict, starters_needed |-> EmptyDict,
                pick_overall |-> 1, turns_until_next_pick |-> 0]
    /\ settings = [qb_format |-> "1QB", roster_limits |-> EmptyDict]
    /\ call = NoCall
    /\ ret = 0
    /\ ranked = <<>>
    /\ \/ \E names \in ShortNameLists, ctx \in KwContexts :
             ui = [pressed |-> FALSE, kw |-> WithAvailable(ctx, names)]
       \/ \E names \in LongNameLists, ctx \in KwContexts :
             /\ ctx.qb_format = Some("1QB")
             /\ ctx.turns_until_next_pick = Some(0)
             /\ ctx.roster_counts # None
             /\ (ctx.starters_needed = Some(UnkDict(2))) = (ctx.roster_limits = None)
             /\ ui = [pressed |-> FALSE, kw |-> WithAvailable(ctx, names)]
    /\ run = NoRun

\* the wrapper's keyword branch; ret is what call_model brings
CallWrapper ==
    /\ call.fn = "none"
    /\ call' = [fn |-> "get_draft_recommendations_wrapper", pos |-> "", idx |-> 0]
    /\ LET prep == Prepared(ui.kw)
       IN  /\ candidates' = prep.candidates
           /\ state' = prep.state
           /\ settings' = prep.settings
           /\ ranked' = prep.ranked
    /\ \E outcome \in {"raises", "recommendations"} : ret' = outcome
    /\ UNCHANGED <<ui, run>>

NextWrapper == CallWrapper

SpecWrapper == InitWrapper /\ [][NextWrapper]_vars

(* ---- C16 ---- *)
WrapperCalled == call.fn = "get_draft_recommendations_wrapper"

NamesOf(rows) == [i \in 1..Len(rows) |-> rows[i].player]

\* C16: called keyword style with a list of names, the wrapper builds one
\* candidate per name, in order, with position UNK and without adp,
\* proj_pts and tier; all candidates then have the same final_rank_score
\* whatever the roster state and the settings, and the names of the
\* shortlist are the first min(18, n) names of available in input order.
C16_NamesKeepInputOrder ==
    WrapperCalled =>
        /\ NamesOf(candidates) = ui.kw.available
        /\ \A i \in 1..Len(candidates) :
              /\ candidates[i].pos = "UNK"
              /\ IsNone(candidates[i].adp)
              /\ IsNone(candidates[i].proj_pts)
              /\ IsNone(candidates[i].tier)
        /\ \A i, j \in 1..Len(candidates) :
              final_rank_score(candidates[i], state, settings) =
                  final_rank_score(candidates[j], state, settings)
        /\ NamesOf(ranked) =
              SubSeq(ui.kw.available, 1, Min(SHORTLIST, Len(ui.kw.available)))

\* more names than the shortlist holds, and a roster that counts UNK players
C16_Witness ==
    /\ WrapperCalled
    /\ Len(ui.kw.available) > SHORTLIST
    /\ Len(ranked) = SHORTLIST
    /\ "UNK" \in DOMAIN state.roster_counts
    /\ "UNK" \in DOMAIN settings.roster_limits
    /\ ranked[1].player = ui.kw.available[1]
    /\ ranked[SHORTLIST].player = ui.kw.available[SHORTLIST]

===========================================================================
